---- MODULE Spec2Model ----
(***************************************************************************)
(* Model of jacobian.py: the Jacobian dictionary algebra                   *)
(* (IdentityMatrix, compose_jacobians, apply_jacobians, chain_jacobians),  *)
(* packing (pack_jacobians, unpack_jacobians), graph construction          *)
(* (curlyJ_sorted) and forward accumulation (forward_accumulate).          *)
(*                                                                         *)
(* Python objects live in a heap (a sequence of values); dictionaries hold *)
(* references (indices into the heap), so that aliasing and in-place       *)
(* mutation (ndarray +=) are visible.  Dictionaries are functions whose    *)
(* domain is a set of names; they are iterated in the order of NameOrder.  *)
(***************************************************************************)
EXTENDS Integers, Sequences, FiniteSets, TLC

\* ------------------------------------------------------------------ bounds
\* horizon: every dense operator is a T x T matrix, every sequence has length T
T == 2
\* longest block_list handed to curlyJ_sorted
MaxBlocks == 2
\* longest name list handed to pack_jacobians / unpack_jacobians
MaxPack == 2

Names == {"x", "y", "z"}
NameOrder == <<"x", "y", "z">>

\* Python's None for the optional arguments outputs / required: a value
\* that is no set of names
None == {"None"}

\* ------------------------------------------------------- dense arithmetic
Idx == 1..T

RECURSIVE SumTo(_, _)
SumTo(f, n) == IF n = 0 THEN 0 ELSE f[n] + SumTo(f, n - 1)

\* np.zeros((T, T))
Zeros == [r \in Idx |-> [c \in Idx |-> 0]]
\* np.eye(T)
Eye == [r \in Idx |-> [c \in Idx |-> IF r = c THEN 1 ELSE 0]]
Scale(a, A) == [r \in Idx |-> [c \in Idx |-> a * A[r][c]]]
\* one step lead / lag as dense matrices; they do not commute
ShiftUp == [r \in Idx |-> [c \in Idx |-> IF c = r + 1 THEN 1 ELSE 0]]
ShiftDown == [r \in Idx |-> [c \in Idx |-> IF r = c + 1 THEN 1 ELSE 0]]

MatAdd(A, B) == [r \in Idx |-> [c \in Idx |-> A[r][c] + B[r][c]]]
MatMat(A, B) == [r \in Idx |-> [c \in Idx |->
                    SumTo([k \in Idx |-> A[r][k] * B[k][c]], T)]]
MatVec(A, v) == [r \in Idx |-> SumTo([k \in Idx |-> A[r][k] * v[k]], T)]
VecAdd(u, v) == [r \in Idx |-> u[r] + v[r]]

\* ---------------------------------------------------------------- objects
\* An object is [kind, m]: kind "identity" (IdentityMatrix, m unused),
\* "dense" (T x T ndarray), "sparse" (SimpleSparse, m its matrix(T)),
\* "vec" (length-T ndarray).
IdentityMatrix == [kind |-> "identity", m |-> <<>>]
Dense(A) == [kind |-> "dense", m |-> A]
Sparse(A) == [kind |-> "sparse", m |-> A]
Vec(v) == [kind |-> "vec", m |-> v]

IsNdarray(X) == X.kind \in {"dense", "vec"}

\* IdentityMatrix.sparse(): SimpleSparse({(0, 0): 1})
sparse(X) == Sparse(Eye)

\* IdentityMatrix.matrix(T) / SimpleSparse.matrix(T)
matrix(X) == IF X.kind = "identity" THEN Eye ELSE X.m

\* make_matrix(A, T)
make_matrix(X) == IF ~IsNdarray(X) THEN matrix(X) ELSE X.m

\* ------------------------------------------------------------------- heap
\* allocation of a new object: the heap grows by one cell
Alloc(h, X) == [h |-> Append(h, X), id |-> Len(h) + 1]

\* copy.deepcopy(other): a new object with the same value
deepcopy(h, other) == Alloc(h, h[other])

\* IdentityMatrix.__matmul__(self, other), aliasing variant (for comparison)
IdentityMatrix_matmul_alias(h, other) == [h |-> h, id |-> other]
\* IdentityMatrix.__matmul__(self, other)
IdentityMatrix_matmul(h, other) == deepcopy(h, other)

\* IdentityMatrix.__rmatmul__(self, other), aliasing variant (for comparison)
IdentityMatrix_rmatmul_alias(h, other) == [h |-> h, id |-> other]
\* IdentityMatrix.__rmatmul__(self, other)
IdentityMatrix_rmatmul(h, other) == deepcopy(h, other)

\* product of two operators neither of which is IdentityMatrix
\* (ndarray @ ndarray, SimpleSparse @ SimpleSparse, mixed, operator @ vector)
Product(X, Y) ==
    IF Y.kind = "vec" THEN Vec(MatVec(X.m, Y.m))
    ELSE IF X.kind = "sparse" /\ Y.kind = "sparse" THEN Sparse(MatMat(X.m, Y.m))
    ELSE Dense(MatMat(X.m, Y.m))

\* jac1 @ jac2: Python tries type(jac1).__matmul__ first; ndarray and
\* SimpleSparse defer to IdentityMatrix.__rmatmul__ (__array_priority__).
MatMul(h, jac1, jac2) ==
    IF h[jac1].kind = "identity" THEN IdentityMatrix_matmul(h, jac2)
    ELSE IF h[jac2].kind = "identity" THEN IdentityMatrix_rmatmul(h, jac1)
    ELSE Alloc(h, Product(h[jac1], h[jac2]))

\* value of X + Y when one side is not an ndarray: IdentityMatrix.__add__ /
\* __radd__ go through self.sparse(); the sum of a SimpleSparse and a dense
\* matrix is dense, that of two SimpleSparse is a SimpleSparse.
Sum(X, Y) ==
    LET A == IF X.kind = "identity" THEN sparse(X) ELSE X
        B == IF Y.kind = "identity" THEN sparse(Y) ELSE Y
    IN IF A.kind = "dense" \/ B.kind = "dense"
       THEN Dense(MatAdd(A.m, B.m))
       ELSE Sparse(MatAdd(A.m, B.m))

\* a = b in place of a += b (for comparison)
IAdd_overwrite(h, a, b) == [h |-> h, id |-> b]
\* a += b on the object a: ndarray += ndarray works in place (same object);
\* every other pairing falls back to a = a + b, which binds a new object.
IAdd(h, a, b) ==
    IF IsNdarray(h[a]) /\ IsNdarray(h[b])
    THEN [h |-> [h EXCEPT ![a] =
                    IF h[a].kind = "vec" THEN Vec(VecAdd(h[a].m, h[b].m))
                    ELSE Dense(MatAdd(h[a].m, h[b].m))],
          id |-> a]
    ELSE Alloc(h, Sum(h[a], h[b]))

\* ----------------------------------------------------------- dictionaries
EmptyDict == [k \in {} |-> 0]
DictSet(d, k, v) == [n \in DOMAIN d \cup {k} |-> IF n = k THEN v ELSE d[n]]
\* dict.update
DictUpdate(d, e) == [n \in DOMAIN d \cup DOMAIN e |->
                        IF n \in DOMAIN e THEN e[n] ELSE d[n]]
\* dict.get(k, {})
DictGet(d, k) == IF k \in DOMAIN d THEN d[k] ELSE EmptyDict
\* {k: v for k, v in d.items() if k in S}
DictFilter(d, S) == [n \in DOMAIN d \cap S |-> d[n]]
\* d.items(): the keys in iteration order
Items(d) == SelectSeq(NameOrder, LAMBDA n : n \in DOMAIN d)
SetToSeq(S) == SelectSeq(NameOrder, LAMBDA n : n \in S)
Range(s) == {s[k] : k \in DOMAIN s}

\* ------------------------------------------------------ compose_jacobians
\* the innermost loop: for inp, jac2 in innerjac2.items()
RECURSIVE compose_inp(_, _, _, _, _)
compose_inp(st, output, jac1, innerjac2, inps) ==
    IF inps = <<>> THEN st
    ELSE LET inp == Head(inps)
             p == MatMul(st.h, jac1, innerjac2[inp])
             nx == IF inp \in DOMAIN st.d[output]
                   THEN LET s == IAdd(p.h, st.d[output][inp], p.id)
                        IN [h |-> s.h,
                            d |-> [st.d EXCEPT ![output] = DictSet(@, inp, s.id)]]
                   ELSE [h |-> p.h,
                         d |-> [st.d EXCEPT ![output] = DictSet(@, inp, p.id)]]
         IN compose_inp(nx, output, jac1, innerjac2, Tail(inps))

\* for middle, jac1 in innerjac1.items()
RECURSIVE compose_middle(_, _, _, _, _)
compose_middle(st, output, innerjac1, jacdict2, middles) ==
    IF middles = <<>> THEN st
    ELSE LET middle == Head(middles)
             innerjac2 == DictGet(jacdict2, middle)
             nx == compose_inp(st, output, innerjac1[middle], innerjac2,
                               Items(innerjac2))
         IN compose_middle(nx, output, innerjac1, jacdict2, Tail(middles))

\* for output, innerjac1 in jacdict1.items()
RECURSIVE compose_output(_, _, _, _)
compose_output(st, jacdict1, jacdict2, outs) ==
    IF outs = <<>> THEN st
    ELSE LET output == Head(outs)
             st0 == [h |-> st.h, d |-> DictSet(st.d, output, EmptyDict)]
             nx == compose_middle(st0, output, jacdict1[output], jacdict2,
                                  Items(jacdict1[output]))
         IN compose_output(nx, jacdict1, jacdict2, Tail(outs))

\* compose_jacobians(jacdict2, jacdict1): the new heap and the new dictionary
compose_jacobians(h, jacdict2, jacdict1) ==
    compose_output([h |-> h, d |-> EmptyDict], jacdict1, jacdict2, Items(jacdict1))

\* -------------------------------------------------------- apply_jacobians
\* for myin, jac in innerjacdict.items()
RECURSIVE apply_in(_, _, _, _, _)
apply_in(st, myout, innerjacdict, indict, myins) ==
    IF myins = <<>> THEN st
    ELSE LET myin == Head(myins)
             nx == IF myin \in DOMAIN indict
                   THEN LET p == MatMul(st.h, innerjacdict[myin], indict[myin])
                        IN IF myout \in DOMAIN st.d
                           THEN LET s == IAdd(p.h, st.d[myout], p.id)
                                IN [h |-> s.h, d |-> DictSet(st.d, myout, s.id)]
                           ELSE [h |-> p.h, d |-> DictSet(st.d, myout, p.id)]
                   ELSE st
         IN apply_in(nx, myout, innerjacdict, indict, Tail(myins))

\* for myout, innerjacdict in jacdict.items()
RECURSIVE apply_out(_, _, _, _)
apply_out(st, jacdict, indict, myouts) ==
    IF myouts = <<>> THEN st
    ELSE LET myout == Head(myouts)
             nx == apply_in(st, myout, jacdict[myout], indict,
                            Items(jacdict[myout]))
         IN apply_out(nx, jacdict, indict, Tail(myouts))

\* apply_jacobians(jacdict, indict): the new heap and outdict
apply_jacobians(h, jacdict, indict) ==
    apply_out([h |-> h, d |-> EmptyDict], jacdict, indict, Items(jacdict))

\* -------------------------------------------------------- chain_jacobians
\* {i: {i: IdentityMatrix()} for i in inputs}
RECURSIVE identity_dict(_, _)
identity_dict(st, inputs) ==
    IF inputs = <<>> THEN st
    ELSE LET i == Head(inputs)
             a == Alloc(st.h, IdentityMatrix)
         IN identity_dict([h |-> a.h,
                           d |-> DictSet(st.d, i, DictSet(EmptyDict, i, a.id))],
                          Tail(inputs))

\* for jacdict in jacdicts: cumulative_jacdict.update(compose_jacobians(...))
RECURSIVE chain_fold(_, _)
chain_fold(st, jacdicts) ==
    IF jacdicts = <<>> THEN st
    ELSE LET c == compose_jacobians(st.h, st.d, Head(jacdicts))
         IN chain_fold([h |-> c.h, d |-> DictUpdate(st.d, c.d)], Tail(jacdicts))

\* chain_jacobians(jacdicts, inputs, T)
chain_jacobians(h, jacdicts, inputs) ==
    chain_fold(identity_dict([h |-> h, d |-> EmptyDict], inputs), jacdicts)

\* ----------------------------------------------------- forward_accumulate
\* the argument inputs is [type |-> "list", val |-> sequence of names] or
\* [type |-> "dict", val |-> dictionary name -> vector]
isdict(inputs) == inputs.type = "dict"

\* alloutputs without the required names (for comparison)
alloutputs_outputs_only(outputs, required) ==
    IF outputs # None /\ required # None THEN outputs ELSE None
\* alloutputs = set(outputs) | set(required), or None
alloutputs_of(outputs, required) ==
    IF outputs # None /\ required # None THEN outputs \cup required ELSE None

\* for curlyJ in curlyJs: filter, then out.update(compose / apply)
RECURSIVE accumulate_fold(_, _, _, _)
accumulate_fold(st, curlyJs, alloutputs, jacflag) ==
    IF curlyJs = <<>> THEN st
    ELSE LET curlyJ == IF alloutputs # None
                       THEN DictFilter(Head(curlyJs), alloutputs)
                       ELSE Head(curlyJs)
             c == IF jacflag THEN compose_jacobians(st.h, st.d, curlyJ)
                  ELSE apply_jacobians(st.h, curlyJ, st.d)
         IN accumulate_fold([h |-> c.h, d |-> DictUpdate(st.d, c.d)],
                            Tail(curlyJs), alloutputs, jacflag)

\* the return statement of forward_accumulate, without the exclusion of the
\* inputs in derivative mode (for comparison)
accumulate_result_keep_inputs(out, inputs, outputs, jacflag) ==
    IF outputs # None THEN DictFilter(out, outputs) ELSE out
\* the return statement of forward_accumulate, without the restriction to
\* outputs (for comparison)
accumulate_result_unrestricted(out, inputs, outputs, jacflag) ==
    IF jacflag THEN DictFilter(out, DOMAIN out \ Range(inputs.val)) ELSE out
\* the return statement of forward_accumulate
accumulate_result(out, inputs, outputs, jacflag) ==
    IF outputs # None THEN DictFilter(out, outputs)
    ELSE IF jacflag THEN DictFilter(out, DOMAIN out \ Range(inputs.val))
    ELSE out

\* forward_accumulate(curlyJs, inputs, outputs, required): the new heap h,
\* the accumulator acc after the loop and the returned dictionary d
forward_accumulate(h, curlyJs, inputs, outputs, required) ==
    LET alloutputs == alloutputs_of(outputs, required)
        jacflag == ~isdict(inputs)
        st0 == IF jacflag
               THEN identity_dict([h |-> h, d |-> EmptyDict], inputs.val)
               ELSE [h |-> h, d |-> inputs.val]
        st == accumulate_fold(st0, curlyJs, alloutputs, jacflag)
    IN [h |-> st.h, acc |-> st.d,
        d |-> accumulate_result(st.d, inputs, outputs, jacflag)]

\* --------------------------------------------- pack_jacobians / unpack_jacobians
\* subdict.get(inputs[iI], np.zeros((T, T))) for block (iO, iI); jacdict
\* holds the operators themselves here
pack_block(jacdict, o, i) ==
    LET subdict == DictGet(jacdict, o)
    IN IF i \in DOMAIN subdict THEN subdict[i] ELSE Dense(Zeros)

\* pack_jacobians(jacdict, inputs, outputs, T): each block is assigned into
\* a slice of the float array outjac; numpy cannot convert an object that
\* is no ndarray (IdentityMatrix) to floats and raises TypeError
pack_jacobians(jacdict, inputs, outputs) ==
    LET nI == Len(inputs)
        nO == Len(outputs)
        B(iO, iI) == pack_block(jacdict, outputs[iO], inputs[iI])
    IN IF \E iO \in 1..nO, iI \in 1..nI : ~IsNdarray(B(iO, iI))
       THEN [error |-> "TypeError", m |-> <<>>]
       ELSE [error |-> "",
             m |-> [R \in 1..(nO * T) |-> [C \in 1..(nI * T) |->
                       B(((R - 1) \div T) + 1, ((C - 1) \div T) + 1)
                           .m[((R - 1) % T) + 1][((C - 1) % T) + 1]]]]

\* bigjac[(T * iO):(T * (iO + 1)), (T * iI):(T * (iI + 1))], iO and iI from 1
slice(bigjac, iO, iI) ==
    [r \in Idx |-> [c \in Idx |-> bigjac[T * (iO - 1) + r][T * (iI - 1) + c]]]

\* the last position of name in a list: a later assignment to the same
\* dictionary key replaces an earlier one
LastIndex(names, name) ==
    CHOOSE k \in DOMAIN names :
        names[k] = name /\ \A j \in DOMAIN names : j > k => names[j] # name

\* unpack_jacobians(bigjac, inputs, outputs, T)
unpack_jacobians(bigjac, inputs, outputs) ==
    [o \in Range(outputs) |-> [i \in Range(inputs) |->
        Dense(slice(bigjac, LastIndex(outputs, o), LastIndex(inputs, i)))]]

\* ------------------------------------------------------------------ blocks
\* An entry of block_list is [kind, input_list, output_list, dict]:
\*   kind "SimpleBlock": a block with its declared input_list / output_list,
\*   kind "dict": a Jacobian dictionary (output -> input -> operator),
\*   kind "other": anything else.
SimpleBlock(ins, outs) ==
    [kind |-> "SimpleBlock", input_list |-> ins, output_list |-> outs,
     dict |-> EmptyDict]
DictBlock(d) ==
    [kind |-> "dict", input_list |-> <<>>, output_list |-> <<>>, dict |-> d]
OtherBlock ==
    [kind |-> "other", input_list |-> <<>>, output_list |-> <<>>,
     dict |-> EmptyDict]

\* the local Jacobian of output o with respect to input i, as the block
\* evaluator computes it for a SimpleBlock and as the caller supplies it in
\* a Jacobian dictionary
JacVal(kind, o, i) ==
    IF kind = "SimpleBlock"
    THEN CASE o = "y" /\ i = "x" -> Dense(Scale(2, Eye))
           [] o = "z" /\ i = "y" -> Dense(Scale(3, Eye))
           [] o = "z" /\ i = "x" -> Dense(ShiftUp)
           [] o = "x" /\ i = "y" -> Dense(ShiftDown)
           [] o = "x" /\ i = "z" -> Dense(ShiftUp)
           [] o = "y" /\ i = "z" -> Dense(ShiftDown)
           [] OTHER -> Dense(Eye)
    ELSE CASE o = "x" /\ i = "y" -> Dense(ShiftUp)
           [] o = "y" /\ i = "z" -> Dense(ShiftDown)
           [] OTHER -> IdentityMatrix

\* the sequence supplied for an input name in evaluation mode
VecVal(i) ==
    CASE i = "x" -> Vec([r \in Idx |-> 1])
      [] i = "y" -> Vec([r \in Idx |-> r])
      [] OTHER -> Vec([r \in Idx |-> IF r = 1 THEN 1 ELSE 0])

\* a new dictionary {o: {i: operator for i in ins} for o in outs} whose
\* operators are new objects
RECURSIVE new_inner(_, _, _, _)
new_inner(st, kind, o, ins) ==
    IF ins = <<>> THEN st
    ELSE LET a == Alloc(st.h, JacVal(kind, o, Head(ins)))
         IN new_inner([h |-> a.h, d |-> DictSet(st.d, Head(ins), a.id)],
                      kind, o, Tail(ins))

RECURSIVE new_jacdict(_, _, _, _)
new_jacdict(st, kind, outs, ins) ==
    IF outs = <<>> THEN st
    ELSE LET inner == new_inner([h |-> st.h, d |-> EmptyDict], kind,
                                Head(outs), ins)
         IN new_jacdict([h |-> inner.h, d |-> DictSet(st.d, Head(outs), inner.d)],
                        kind, Tail(outs), ins)

\* sim.all_Js(block, ss, shock_list): each declared output -> each shocked
\* input -> operator
all_Js(h, block, shock_list) ==
    new_jacdict([h |-> h, d |-> EmptyDict], "SimpleBlock", block.output_list,
                shock_list)

\* ----------------------------------------------------------- curlyJ_sorted
\* block indices are 1..len(block_list) (enumerate counts from 0 in Python)

\* step 1, the loop over output_list: for o in output_list
RECURSIVE step1_outputs(_, _, _)
step1_outputs(om, output_list, num) ==
    IF om.error # "" \/ output_list = <<>> THEN om
    ELSE LET o == Head(output_list)
         IN IF o \in DOMAIN om.outmap
            THEN [om EXCEPT !.error = "output twice"]
            ELSE step1_outputs([om EXCEPT !.outmap = DictSet(@, o, num)],
                               Tail(output_list), num)

\* step 1 without the rejection of a repeated output (for comparison)
RECURSIVE step1_no_check(_, _)
step1_no_check(blocks, num) ==
    IF num = 0 THEN [outmap |-> EmptyDict, error |-> ""]
    ELSE LET om == step1_no_check(blocks, num - 1)
             block == blocks[num]
             outs == IF block.kind = "SimpleBlock"
                     THEN Range(block.output_list) ELSE DOMAIN block.dict
         IN IF om.error # "" THEN om
            ELSE IF block.kind = "other"
            THEN [om EXCEPT !.error = "not recognized"]
            ELSE [om EXCEPT !.outmap = DictUpdate(@, [o \in outs |-> num])]

\* step 1: map outputs to blocks; the blocks 1..num have been visited
RECURSIVE step1(_, _)
step1(blocks, num) ==
    IF num = 0 THEN [outmap |-> EmptyDict, error |-> ""]
    ELSE LET om == step1(blocks, num - 1)
             block == blocks[num]
         IN IF om.error # "" THEN om
            ELSE IF block.kind = "SimpleBlock"
            THEN step1_outputs(om, block.output_list, num)
            ELSE IF block.kind = "dict"
            THEN step1_outputs(om, Items(block.dict), num)
            ELSE [om EXCEPT !.error = "not recognized"]

\* step 2: the input list of a block
input_list_of(block) ==
    IF block.kind = "SimpleBlock" THEN Range(block.input_list)
    ELSE UNION {DOMAIN block.dict[o] : o \in DOMAIN block.dict}

\* step 2 without the dependency edges (for comparison)
dep_of_empty(blocks, om) == [num \in 1..Len(blocks) |-> {}]
\* step 2: dep[num] = producers of the inputs of block num
dep_of(blocks, om) ==
    [num \in 1..Len(blocks) |->
        {om[i] : i \in input_list_of(blocks[num]) \cap DOMAIN om}]

\* step 2 adding every input, produced or not (for comparison)
required_of_all_inputs(blocks, om) ==
    UNION {input_list_of(blocks[num]) : num \in 1..Len(blocks)}
\* step 2: required = the inputs that some block of the list outputs
required_of(blocks, om) ==
    UNION {input_list_of(blocks[num]) \cap DOMAIN om : num \in 1..Len(blocks)}

\* utils.topological_sort(dep): the orders it may return
IsPermutation(s, n) == Len(s) = n /\ Range(s) = 1..n
Position(s, num) == CHOOSE k \in DOMAIN s : s[k] = num
IsTopological(s, d) ==
    /\ IsPermutation(s, Cardinality(DOMAIN d))
    /\ \A num \in DOMAIN d : \A m \in d[num] : Position(s, m) < Position(s, num)
topological_sort(d) ==
    {s \in [1..Cardinality(DOMAIN d) -> DOMAIN d] : IsTopological(s, d)}

\* step 4 shocking the exogenous inputs only (for comparison)
shocks_of_inputs_only(ins, req) == Range(ins)
\* step 4: shocks = set(inputs) | required
shocks_of(ins, req) == Range(ins) \cup req

\* step 4: [i for i in block.input_list if i in shocks]
shock_list_of(block, shocks) ==
    SelectSeq(block.input_list, LAMBDA i : i \in shocks)

\* step 4: the loop over topsorted; st = [h, curlyJs, evals]
RECURSIVE step4(_, _, _, _)
step4(st, blocks, shocks, order) ==
    IF order = <<>> THEN st
    ELSE LET num == Head(order)
             block == blocks[num]
             nx == IF block.kind = "SimpleBlock"
                   THEN LET sl == shock_list_of(block, shocks)
                            j == all_Js(st.h, block, sl)
                        IN [h |-> j.h, curlyJs |-> Append(st.curlyJs, j.d),
                            evals |-> Append(st.evals,
                                             [num |-> num, shock_list |-> sl])]
                   ELSE [st EXCEPT !.curlyJs = Append(@, block.dict)]
         IN step4(nx, blocks, shocks, Tail(order))

\* ------------------------------------------------------------------- state
VARIABLES
    heap,        \* the objects: operators and sequences
    block_list,  \* curlyJ_sorted's argument block_list
    inputs,      \* curlyJ_sorted's argument inputs (a list of names)
    indict,      \* the caller's dictionary of input sequences (evaluation mode)
    pc,          \* "start", "step2", "step3", "step4", "sorted", "done", "error"
    error,       \* the exception raised, "" if none
    outmap,      \* curlyJ_sorted: output name -> block index
    dep,         \* curlyJ_sorted: block index -> set of block indices
    required,    \* curlyJ_sorted: set of names
    topsorted,   \* curlyJ_sorted: the order returned by topological_sort
    curlyJs,     \* curlyJ_sorted: the list of Jacobian dictionaries
    evals,       \* the invocations of the block evaluator sim.all_Js
    sorts,       \* the number of calls of utils.topological_sort
    call,        \* the call made on the sorted list and its arguments
    acc,         \* the accumulator of that call after its loop
    res,         \* the dictionary that call returned
    pk           \* pack_jacobians / unpack_jacobians: arguments and results

vars == <<heap, block_list, inputs, indict, pc, error, outmap, dep, required,
          topsorted, curlyJs, evals, sorts, call, acc, res, pk>>

graph_vars == <<outmap, dep, required, topsorted, curlyJs, evals, sorts, pk>>

\* the entries block_list is drawn from: one output and a set of inputs
\* (a set of all the names would always contain the entry's own output)
BlockShapes ==
    {[kind |-> k, out |-> o, ins |-> I] :
        k \in {"SimpleBlock", "dict"}, o \in Names,
        I \in {S \in SUBSET Names : S # Names}}
    \cup {[kind |-> "other", out |-> "x", ins |-> {}]}

ShapeLists == UNION {[1..n -> BlockShapes] : n \in 0..MaxBlocks}

\* the caller builds block_list: st = [h, blocks]
RECURSIVE build_blocks(_, _)
build_blocks(st, shapes) ==
    IF shapes = <<>> THEN st
    ELSE LET sh == Head(shapes)
             nx == IF sh.kind = "dict"
                   THEN LET j == new_jacdict([h |-> st.h, d |-> EmptyDict], "dict",
                                             <<sh.out>>, SetToSeq(sh.ins))
                        IN [h |-> j.h, blocks |-> Append(st.blocks, DictBlock(j.d))]
                   ELSE IF sh.kind = "SimpleBlock"
                   THEN [st EXCEPT !.blocks =
                            Append(@, SimpleBlock(SetToSeq(sh.ins), <<sh.out>>))]
                   ELSE [st EXCEPT !.blocks = Append(@, OtherBlock)]
         IN build_blocks(nx, Tail(shapes))

\* the caller builds the dictionary of input sequences: st = [h, d]
RECURSIVE build_indict(_, _)
build_indict(st, names) ==
    IF names = <<>> THEN st
    ELSE LET a == Alloc(st.h, VecVal(Head(names)))
         IN build_indict([h |-> a.h, d |-> DictSet(st.d, Head(names), a.id)],
                         Tail(names))

\* no packing call is in progress
NoPack == [stage |-> "none", jacdict |-> EmptyDict, inputs |-> <<>>,
           outputs |-> <<>>, bigjac |-> <<>>, unpacked |-> EmptyDict]

Init ==
    \E shapes \in ShapeLists, I \in SUBSET Names :
        LET v == build_indict([h |-> <<>>, d |-> EmptyDict], SetToSeq(I))
            b == build_blocks([h |-> v.h, blocks |-> <<>>], shapes)
        IN /\ heap = b.h
           /\ block_list = b.blocks
           /\ inputs = SetToSeq(I)
           /\ indict = v.d
    /\ pc = "start"
    /\ error = ""
    /\ outmap = EmptyDict
    /\ dep = <<>>
    /\ required = {}
    /\ topsorted = <<>>
    /\ curlyJs = <<>>
    /\ evals = <<>>
    /\ sorts = 0
    /\ call = [fn |-> "", outputs |-> None, required |-> None]
    /\ acc = EmptyDict
    /\ res = EmptyDict
    /\ pk = NoPack

\* curlyJ_sorted, step 1
Step1 ==
    /\ pc = "start"
    /\ LET om == step1(block_list, Len(block_list))
       IN /\ error' = om.error
          /\ pc' = IF om.error # "" THEN "error" ELSE "step2"
          /\ outmap' = IF om.error # "" THEN outmap ELSE om.outmap
    /\ UNCHANGED <<heap, block_list, inputs, indict, dep, required, topsorted,
                   curlyJs, evals, sorts, call, acc, res, pk>>

\* curlyJ_sorted, step 2
Step2 ==
    /\ pc = "step2"
    /\ dep' = dep_of(block_list, outmap)
    /\ required' = required_of(block_list, outmap)
    /\ pc' = "step3"
    /\ UNCHANGED <<heap, block_list, inputs, indict, error, outmap, topsorted,
                   curlyJs, evals, sorts, call, acc, res, pk>>

\* curlyJ_sorted, step 3: utils.topological_sort returns some valid order,
\* or raises when the dependencies have a cycle
Step3 ==
    /\ pc = "step3"
    /\ sorts' = sorts + 1
    /\ IF topological_sort(dep) = {}
       THEN /\ pc' = "error"
            /\ error' = "cycle"
            /\ topsorted' = topsorted
       ELSE /\ \E s \in topological_sort(dep) : topsorted' = s
            /\ pc' = "step4"
            /\ error' = error
    /\ UNCHANGED <<heap, block_list, inputs, indict, outmap, dep, required,
                   curlyJs, evals, call, acc, res, pk>>

\* curlyJ_sorted, step 4 and the return of (curlyJs, required)
Step4 ==
    /\ pc = "step4"
    /\ LET st == step4([h |-> heap, curlyJs |-> <<>>, evals |-> <<>>],
                       block_list, shocks_of(inputs, required), topsorted)
       IN /\ heap' = st.h
          /\ curlyJs' = st.curlyJs
          /\ evals' = st.evals
    /\ pc' = "sorted"
    /\ UNCHANGED <<block_list, inputs, indict, error, outmap, dep, required,
                   topsorted, sorts, call, acc, res, pk>>

\* the values outputs may take: None or a set of names
OutputsArgs == {None} \cup SUBSET Names

\* chain_jacobians(curlyJs, inputs, T)
ChainCall ==
    /\ pc = "sorted"
    /\ LET r == chain_jacobians(heap, curlyJs, inputs)
       IN /\ heap' = r.h
          /\ acc' = r.d
          /\ res' = r.d
    /\ call' = [fn |-> "chain", outputs |-> None, required |-> None]
    /\ pc' = "done"
    /\ UNCHANGED <<block_list, inputs, indict, error>>
    /\ UNCHANGED graph_vars

\* forward_accumulate(curlyJs, inputs, outputs, required), inputs a list
AccumulateCall ==
    /\ pc = "sorted"
    /\ \E outputs \in OutputsArgs, req \in {None, required} :
        LET r == forward_accumulate(heap, curlyJs,
                                    [type |-> "list", val |-> inputs],
                                    outputs, req)
        IN /\ heap' = r.h
           /\ acc' = r.acc
           /\ res' = r.d
           /\ call' = [fn |-> "derivative", outputs |-> outputs,
                       required |-> req]
    /\ pc' = "done"
    /\ UNCHANGED <<block_list, inputs, indict, error>>
    /\ UNCHANGED graph_vars

\* forward_accumulate(curlyJs, indict, outputs, required), inputs a dict
EvaluateCall ==
    /\ pc = "sorted"
    /\ \E outputs \in OutputsArgs, req \in {None, required} :
        LET r == forward_accumulate(heap, curlyJs,
                                    [type |-> "dict", val |-> indict],
                                    outputs, req)
        IN /\ heap' = r.h
           /\ acc' = r.acc
           /\ res' = r.d
           /\ call' = [fn |-> "evaluation", outputs |-> outputs,
                       required |-> req]
    /\ pc' = "done"
    /\ UNCHANGED <<block_list, inputs, indict, error>>
    /\ UNCHANGED graph_vars

Next ==
    \/ Step1
    \/ Step2
    \/ Step3
    \/ Step4
    \/ ChainCall
    \/ AccumulateCall
    \/ EvaluateCall

Spec == Init /\ [][Next]_vars

\* ---------------------------------------------------------------- readings
\* a nested dictionary of operators with the objects in place of the references
ValOf(h, d) == [o \in DOMAIN d |-> [i \in DOMAIN d[o] |-> h[d[o][i]]]]

\* the names some dictionary of curlyJs has as a key
Produced == UNION {DOMAIN curlyJs[k] : k \in DOMAIN curlyJs}
\* the local Jacobian entries of output o (outputs are pairwise distinct)
LocalJ(o) == LET k == CHOOSE k \in DOMAIN curlyJs : o \in DOMAIN curlyJs[k]
             IN curlyJs[k][o]

\* dependency paths from input i to o: i = p[1], o = p[Len(p)], and every
\* p[k+1] has a local Jacobian with respect to p[k]
PathsFrom(i, o) ==
    {p \in UNION {[1..n -> Names] : n \in 1..Cardinality(Names)} :
        /\ p[1] = i
        /\ p[Len(p)] = o
        /\ \A k \in 1..(Len(p) - 1) :
              p[k + 1] \in Produced /\ p[k] \in DOMAIN LocalJ(p[k + 1])}

\* the composition of the local Jacobians along p, the last step outermost
RECURSIVE PathProduct(_, _)
PathProduct(p, n) ==
    IF n = 1 THEN Eye
    ELSE MatMat(matrix(heap[LocalJ(p[n])[p[n - 1]]]), PathProduct(p, n - 1))

RECURSIVE PathSum(_)
PathSum(P) ==
    IF P = {} THEN Zeros
    ELSE LET p == CHOOSE q \in P : TRUE
         IN MatAdd(PathProduct(p, Len(p)), PathSum(P \ {p}))

\* ------------------------------------------------------------------ claims

\* C2: after chain_jacobians over a topologically ordered list with pairwise
\* distinct output names, none of them an input name, the result has a key
\* for every input and every output; result[o][i] exists exactly when a
\* dependency path leads from input i to o, and then it is the sum over
\* those paths of the composed local Jacobians.  The blocks with local
\* Jacobians 2*I (y from x) and 3*I (z from y) give result[z][x] = 6*I.
C2_ChainRule ==
    (pc = "done" /\ call.fn = "chain" /\ Range(inputs) \cap Produced = {}) =>
        /\ DOMAIN res = Range(inputs) \cup Produced
        /\ \A o \in DOMAIN res :
              /\ DOMAIN res[o] = {i \in Range(inputs) : PathsFrom(i, o) # {}}
              /\ \A i \in DOMAIN res[o] :
                    matrix(heap[res[o][i]]) = PathSum(PathsFrom(i, o))
        /\ (/\ inputs = <<"x">>
            /\ Len(curlyJs) = 2
            /\ ValOf(heap, curlyJs[1]) =
                   [o \in {"y"} |-> [i \in {"x"} |-> Dense(Scale(2, Eye))]]
            /\ ValOf(heap, curlyJs[2]) =
                   [o \in {"z"} |-> [i \in {"y"} |-> Dense(Scale(3, Eye))]])
           => matrix(heap[res["z"]["x"]]) = Scale(6, Eye)

\* C2 witness: a chain call in which some output is reached from one input
\* along two different paths whose compositions differ
C2_Witness ==
    /\ pc = "done" /\ call.fn = "chain" /\ Range(inputs) \cap Produced = {}
    /\ \E o \in DOMAIN res : \E i \in DOMAIN res[o] :
          /\ Cardinality(PathsFrom(i, o)) = 2
          /\ \E p \in PathsFrom(i, o) : Len(p) = 3
          /\ matrix(heap[res[o][i]]) # Zeros

\* the dictionary chain_jacobians returns for the sorted list
ChainResult == LET r == chain_jacobians(heap, curlyJs, inputs)
               IN ValOf(r.h, r.d)

\* C3 as stated: forward_accumulate in derivative mode with neither outputs
\* nor required returns the same nested dictionary as chain_jacobians.
C3_SameAsChain ==
    (pc = "done" /\ call.fn = "derivative" /\ call.outputs = None
        /\ call.required = None) =>
        ValOf(heap, res) = ChainResult

\* C3 amended: it returns the dictionary of chain_jacobians without the keys
\* that are input names.
C3_ChainWithoutInputs ==
    (pc = "done" /\ call.fn = "derivative" /\ call.outputs = None
        /\ call.required = None) =>
        ValOf(heap, res) =
            DictFilter(ChainResult, DOMAIN ChainResult \ Range(inputs))

\* C3 witness: such a call with an input and a non-trivial result
C3_Witness ==
    /\ pc = "done" /\ call.fn = "derivative" /\ call.outputs = None
    /\ call.required = None
    /\ inputs # <<>>
    /\ \E o \in DOMAIN res : DOMAIN res[o] # {}

\* what forward_accumulate(curlyJs, inputs) returns with no pruning
Unpruned == LET r == forward_accumulate(heap, curlyJs,
                                        [type |-> "list", val |-> inputs],
                                        None, None)
            IN ValOf(r.h, r.d)

PrunedCall ==
    /\ pc = "done" /\ call.fn = "derivative"
    /\ call.outputs # None /\ call.required = required

\* C1 as stated: with (curlyJs, required) from curlyJ_sorted, every output
\* the pruned forward_accumulate returns has the same entries in the
\* unpruned result filtered to outputs.
C1_PruningInvariance ==
    PrunedCall =>
        LET F == DictFilter(Unpruned, call.outputs)
        IN \A o \in DOMAIN res :
              o \in DOMAIN F /\ ValOf(heap, res)[o] = F[o]

\* C1 amended: this holds for every returned output that is not one of the
\* input names, and every key of the filtered unpruned result is returned.
C1_PruningInvarianceOffInputs ==
    PrunedCall =>
        LET F == DictFilter(Unpruned, call.outputs)
        IN /\ \A o \in DOMAIN res \ Range(inputs) :
                 o \in DOMAIN F /\ ValOf(heap, res)[o] = F[o]
           /\ DOMAIN F \subseteq DOMAIN res

\* C1 witness: a pruned call that dropped one block's output and returned
\* another block's output with its entries
C1_Witness ==
    /\ PrunedCall
    /\ Produced \ (call.outputs \cup required) # {}
    /\ \E o \in (DOMAIN res \cap Produced) \ Range(inputs) : DOMAIN res[o] # {}

\* the outputs and the inputs of entry num of block_list, read off the entry
OutputsOf(num) ==
    LET b == block_list[num]
    IN IF b.kind = "SimpleBlock" THEN Range(b.output_list)
       ELSE IF b.kind = "dict" THEN DOMAIN b.dict ELSE {}
InputsOf(num) ==
    LET b == block_list[num]
    IN IF b.kind = "SimpleBlock" THEN Range(b.input_list)
       ELSE IF b.kind = "dict" THEN UNION {DOMAIN b.dict[o] : o \in DOMAIN b.dict}
       ELSE {}
Entries == 1..Len(block_list)
Recognized == \A a \in Entries : block_list[a].kind \in {"SimpleBlock", "dict"}
HasDuplicateOutput ==
    \E a, b \in Entries : a # b /\ OutputsOf(a) \cap OutputsOf(b) # {}
\* an output of entry a is an input of entry b
Feeds(a, b) == OutputsOf(a) \cap InputsOf(b) # {}
Acyclic ==
    \E s \in [Entries -> Entries] :
        /\ Range(s) = Entries
        /\ \A a, b \in Entries : Feeds(s[a], s[b]) => a < b
Returned == pc \in {"sorted", "done"}

\* C4: when curlyJ_sorted returns, curlyJs holds exactly one dictionary per
\* entry of block_list, the k-th being that of entry topsorted[k], and the
\* dictionary of an entry whose output is an input of another entry comes
\* before that entry's; it returns whenever the entries are recognized, the
\* output names pairwise distinct and the dependencies acyclic.
C4_TopologicalOrder ==
    /\ Returned =>
          /\ Len(curlyJs) = Len(block_list)
          /\ IsPermutation(topsorted, Len(block_list))
          /\ \A k \in DOMAIN curlyJs :
                /\ DOMAIN curlyJs[k] = OutputsOf(topsorted[k])
                /\ block_list[topsorted[k]].kind = "dict"
                      => curlyJs[k] = block_list[topsorted[k]].dict
          /\ \A a, b \in Entries :
                Feeds(a, b) => Position(topsorted, a) < Position(topsorted, b)
    /\ (Recognized /\ ~HasDuplicateOutput /\ Acyclic) => pc # "error"

\* C4 witness: a returned list whose order differs from that of block_list
C4_Witness ==
    /\ Returned
    /\ Len(block_list) = 2
    /\ topsorted = <<2, 1>>
    /\ Feeds(2, 1)

\* C5: when some output name is produced by more than one entry,
\* curlyJ_sorted raises a construction error before topological_sort is
\* called and before any block evaluator is invoked, and returns nothing;
\* when the output names are distinct and every entry is a block or a
\* dictionary, it raises no construction error.
C5_DuplicateOutputRejected ==
    /\ (HasDuplicateOutput /\ pc # "start") =>
          /\ pc = "error"
          /\ error \in {"output twice", "not recognized"}
          /\ sorts = 0
          /\ evals = <<>>
          /\ curlyJs = <<>>
          /\ required = {}
    /\ (~HasDuplicateOutput /\ Recognized) =>
          error \notin {"output twice", "not recognized"}

\* C5 witness: the duplicate-output error has been raised
C5_Witness ==
    /\ pc = "error"
    /\ error = "output twice"
    /\ HasDuplicateOutput
    /\ \E a \in Entries : block_list[a].kind = "SimpleBlock"

\* C6 as stated: every input of an entry that no other entry produces is in
\* the returned required set.
C6_UnproducedInputsRequired ==
    Returned =>
        \A b \in Entries : \A i \in InputsOf(b) :
            (\A a \in Entries \ {b} : i \notin OutputsOf(a)) => i \in required

Step2Done == pc \in {"step3", "step4", "sorted", "done"} \/ error = "cycle"

\* C6 amended: once step 2 has run, an input of an entry is in required
\* exactly when some entry of the list produces it; an input that no entry
\* produces is not added.
C6_ProducedInputsRequired ==
    Step2Done =>
        \A b \in Entries : \A i \in InputsOf(b) :
            i \in required <=> (\E a \in Entries : i \in OutputsOf(a))

\* C6 witness: an entry with one produced and one unproduced input
C6_Witness ==
    /\ Returned
    /\ \E b \in Entries : \E i, j \in InputsOf(b) :
          i \in required /\ j \notin required

\* C7: the required set curlyJ_sorted returns is exactly the set of names
\* that are an output of one entry and an input of another, and the block
\* evaluator is invoked once per block, in sorted order, with exactly the
\* declared inputs of the block that lie in inputs | required.
C7_RequiredAndShocks ==
    Returned =>
        /\ required = {n \in Names : \E a, b \in Entries :
                          a # b /\ n \in OutputsOf(a) /\ n \in InputsOf(b)}
        /\ LET blocks == SelectSeq(topsorted,
                             LAMBDA num : block_list[num].kind = "SimpleBlock")
           IN /\ Len(evals) = Len(blocks)
              /\ \A k \in DOMAIN evals :
                    /\ evals[k].num = blocks[k]
                    /\ evals[k].shock_list =
                          SelectSeq(block_list[blocks[k]].input_list,
                              LAMBDA i : i \in Range(inputs) \cup required)

\* C7 witness: a block evaluated with a required input that is no exogenous
\* input, one of its declared inputs left out
C7_Witness ==
    /\ Returned
    /\ \E k \in DOMAIN evals :
          /\ \E i \in Range(evals[k].shock_list) :
                i \in required /\ i \notin Range(inputs)
          /\ Range(evals[k].shock_list) # InputsOf(evals[k].num)

AccumulateDone == pc = "done" /\ call.fn \in {"derivative", "evaluation"}

\* C8 as stated: with outputs the result's keys are the names of outputs
\* present in the accumulator; without outputs the result is, in derivative
\* mode, the accumulator without the input names and, in evaluation mode,
\* the full accumulator with every supplied input and its supplied value.
C8_ResultKeys ==
    AccumulateDone =>
        /\ call.outputs # None =>
              DOMAIN res = call.outputs \cap DOMAIN acc
        /\ (call.outputs = None /\ call.fn = "derivative") =>
              res = DictFilter(acc, DOMAIN acc \ Range(inputs))
        /\ (call.outputs = None /\ call.fn = "evaluation") =>
              /\ res = acc
              /\ \A i \in DOMAIN indict :
                    i \in DOMAIN res /\ heap[res[i]] = VecVal(i)

\* C8 amended: as stated, except that in evaluation mode a supplied input
\* keeps its supplied value when no dictionary of the list has its name as
\* an output key (otherwise the computed value may replace it).
C8_ResultKeysAmended ==
    AccumulateDone =>
        /\ call.outputs # None =>
              DOMAIN res = call.outputs \cap DOMAIN acc
        /\ (call.outputs = None /\ call.fn = "derivative") =>
              res = DictFilter(acc, DOMAIN acc \ Range(inputs))
        /\ (call.outputs = None /\ call.fn = "evaluation") =>
              /\ res = acc
              /\ \A i \in DOMAIN indict :
                    /\ i \in DOMAIN res
                    /\ i \notin Produced =>
                          res[i] = indict[i] /\ heap[res[i]] = VecVal(i)

\* a call whose outputs name something never produced
OmittedOutputReached ==
    /\ AccumulateDone
    /\ call.outputs # None
    /\ call.outputs \ DOMAIN acc # {}
    /\ DOMAIN res # {}

\* C8 witness of the evaluation case: a supplied input that no block
\* produces is returned next to a computed value
C8_WitnessEvaluation ==
    /\ AccumulateDone
    /\ call.outputs = None /\ call.fn = "evaluation"
    /\ DOMAIN indict \ Produced # {}
    /\ DOMAIN res \ DOMAIN indict # {}

\* the effect of one call on the objects that existed before it
FrameOfCall ==
    /\ \A id \in DOMAIN heap : id \in DOMAIN heap' /\ heap'[id] = heap[id]
    /\ (pc = "sorted" /\ pc' = "done") =>
          /\ call'.fn \in {"chain", "derivative"} =>
                \A o \in DOMAIN res' : \A i \in DOMAIN res'[o] :
                    res'[o][i] \notin DOMAIN heap
          /\ call'.fn = "evaluation" =>
                \A o \in DOMAIN res' :
                    res'[o] \in DOMAIN heap =>
                        o \in DOMAIN indict /\ res'[o] = indict[o]
          /\ (call'.fn = "chain" /\ Len(curlyJs) = 1) =>
                \A o \in DOMAIN curlyJs[1] :
                    \A i \in DOMAIN curlyJs[1][o] \cap Range(inputs) :
                        DOMAIN curlyJs[1][o] \cap Range(inputs) = {i} =>
                            /\ res'[o][i] # curlyJs[1][o][i]
                            /\ heap'[res'[o][i]] = heap[curlyJs[1][o][i]]
          /\ (call'.fn = "evaluation" /\ Len(curlyJs) = 1) =>
                \A o \in DOMAIN curlyJs[1] \cap DOMAIN res' :
                    \A i \in DOMAIN curlyJs[1][o] \cap DOMAIN indict :
                        (/\ DOMAIN curlyJs[1][o] \cap DOMAIN indict = {i}
                         /\ heap[curlyJs[1][o][i]].kind = "identity") =>
                            /\ res'[o] # indict[i]
                            /\ heap'[res'[o]] = heap[indict[i]]

\* C10: IdentityMatrix composed with X on either side gives a new object
\* with the value of X, so no step changes an object that existed before
\* it: the operators of the caller's Jacobian dictionaries and the caller's
\* input sequences are never changed by the in-place additions of
\* compose_jacobians and apply_jacobians, and what a call computes refers
\* to new objects only.
C10_IdentityCopies == [][FrameOfCall]_vars

\* C10 witness: an evaluation in which a value was added in place onto the
\* copy that IdentityMatrix @ sequence produced, and a chain call in which
\* an operator was composed with the accumulator's IdentityMatrix
C10_Witness ==
    /\ pc = "done" /\ call.fn = "evaluation" /\ Len(curlyJs) = 1
    /\ \E o \in DOMAIN curlyJs[1] \cap DOMAIN res :
          LET present == SelectSeq(Items(curlyJs[1][o]),
                                   LAMBDA i : i \in DOMAIN indict)
          IN /\ Len(present) >= 2
             /\ heap[curlyJs[1][o][present[1]]].kind = "identity"
             /\ heap[res[o]] # heap[indict[present[1]]]
             /\ heap[indict[present[1]]] = VecVal(present[1])

\* -------------------------------------------------------------- packing
\* the operators a packed dictionary is drawn from
PackPool == {IdentityMatrix, Dense(Scale(2, Eye)), Dense(ShiftUp)}
PackInner == UNION {[I -> PackPool] : I \in SUBSET {"x", "y"}}
PackDicts == UNION {[O -> PackInner] : O \in SUBSET {"y", "z"}}
NameLists == UNION {[1..n -> Names] : n \in 0..MaxPack}

InitPack ==
    /\ \E J \in PackDicts, ins \in NameLists, outs \in NameLists :
          pk = [stage |-> "start", jacdict |-> J, inputs |-> ins,
                outputs |-> outs, bigjac |-> <<>>, unpacked |-> EmptyDict]
    /\ heap = <<>>
    /\ block_list = <<>>
    /\ inputs = <<>>
    /\ indict = EmptyDict
    /\ pc = "pack"
    /\ error = ""
    /\ outmap = EmptyDict
    /\ dep = <<>>
    /\ required = {}
    /\ topsorted = <<>>
    /\ curlyJs = <<>>
    /\ evals = <<>>
    /\ sorts = 0
    /\ call = [fn |-> "", outputs |-> None, required |-> None]
    /\ acc = EmptyDict
    /\ res = EmptyDict

main_vars == <<heap, block_list, inputs, indict, pc, error, outmap, dep,
               required, topsorted, curlyJs, evals, sorts, call, acc, res>>

\* bigjac = pack_jacobians(jacdict, inputs, outputs, T)
PackJacobians ==
    /\ pk.stage = "start"
    /\ LET r == pack_jacobians(pk.jacdict, pk.inputs, pk.outputs)
       IN pk' = IF r.error # ""
                THEN [pk EXCEPT !.stage = r.error]
                ELSE [pk EXCEPT !.stage = "packed", !.bigjac = r.m]
    /\ UNCHANGED main_vars

\* unpack_jacobians(bigjac, inputs, outputs, T)
UnpackJacobians ==
    /\ pk.stage = "packed"
    /\ pk' = [pk EXCEPT !.stage = "unpacked",
                        !.unpacked = unpack_jacobians(pk.bigjac, pk.inputs,
                                                      pk.outputs)]
    /\ UNCHANGED main_vars

NextPack ==
    \/ PackJacobians
    \/ UnpackJacobians

SpecPack == InitPack /\ [][NextPack]_vars

\* the T x T materialization of J[o][i], a zero block when it is absent
Materialized(J, o, i) ==
    IF o \in DOMAIN J /\ i \in DOMAIN J[o] THEN make_matrix(J[o][i]) ELSE Zeros

\* C9: for a dictionary of operators of any variant, pack_jacobians puts the
\* T x T materialization of J[o][i] (zeros when absent) at block (o, i), and
\* unpacking the packed matrix gives, for every pair of the name lists, that
\* materialization; no call fails.
C9_PackUnpackRoundTrip ==
    /\ pk.stage \in {"none", "start", "packed", "unpacked"}
    /\ pk.stage \in {"packed", "unpacked"} =>
          \A iO \in DOMAIN pk.outputs : \A iI \in DOMAIN pk.inputs :
              slice(pk.bigjac, iO, iI) =
                  Materialized(pk.jacdict, pk.outputs[iO], pk.inputs[iI])
    /\ pk.stage = "unpacked" =>
          /\ DOMAIN pk.unpacked = Range(pk.outputs)
          /\ \A o \in DOMAIN pk.unpacked :
                /\ DOMAIN pk.unpacked[o] = Range(pk.inputs)
                /\ \A i \in DOMAIN pk.unpacked[o] :
                      pk.unpacked[o][i] = Dense(Materialized(pk.jacdict, o, i))

\* pack_jacobians fails exactly when a looked-up entry is no ndarray; for
\* dictionaries whose looked-up entries are all dense T x T matrices the
\* round trip holds
PackDenseRoundTrip ==
    /\ pk.stage \notin {"none", "start"} =>
          (pk.stage = "TypeError") <=>
          (\E iO \in DOMAIN pk.outputs : \E iI \in DOMAIN pk.inputs :
              ~IsNdarray(pack_block(pk.jacdict, pk.outputs[iO], pk.inputs[iI])))
    /\ pk.stage # "TypeError" => C9_PackUnpackRoundTrip

====
